---------------------------- MODULE Spec2Model ----------------------------
(***************************************************************************)
(* Model of the botan plugin's feature registration                        *)
(* (src/libstrongswan/plugins/botan/botan_plugin.c).                       *)
(*                                                                         *)
(* get_features() merges twelve statically gated feature arrays into the   *)
(* function-static array f, once, guarded by the function-static counter   *)
(* count.  The preprocessor conditions are modelled as a build profile B,  *)
(* the set of BOTAN_HAS_* macros that are defined.                         *)
(***************************************************************************)
EXTENDS Integers, Sequences, FiniteSets, TLC

\* Bounds of the model.
MaxOn == 1          \* profiles with at most MaxOn macros defined ...
MaxOff == 1         \* ... and profiles with at most MaxOff macros undefined
MaxFacades == 2     \* plugin objects the host may hold at once
NumThreads == 2     \* threads that call get_features() concurrently
MaxCalls == 1       \* get_features() calls per thread in the threaded model
MaxSlots == 5       \* largest countof(f) explored in the threaded model

\* The BOTAN_HAS_* macros tested between lines 73 and 383.
Flags ==
  { "BOTAN_HAS_AEAD_CCM", "BOTAN_HAS_AEAD_CHACHA20_POLY1305",
    "BOTAN_HAS_AEAD_GCM", "BOTAN_HAS_AES", "BOTAN_HAS_DIFFIE_HELLMAN",
    "BOTAN_HAS_ECDH", "BOTAN_HAS_ECDSA", "BOTAN_HAS_ED25519",
    "BOTAN_HAS_EME_OAEP", "BOTAN_HAS_EMSA1", "BOTAN_HAS_EMSA_PKCS1",
    "BOTAN_HAS_EMSA_PSSR", "BOTAN_HAS_EMSA_RAW", "BOTAN_HAS_HMAC",
    "BOTAN_HAS_HMAC_DRBG", "BOTAN_HAS_MD5", "BOTAN_HAS_MODE_CBC",
    "BOTAN_HAS_RSA", "BOTAN_HAS_SHA1", "BOTAN_HAS_SHA2_32",
    "BOTAN_HAS_SHA2_64", "BOTAN_HAS_SHA3", "BOTAN_HAS_SYSTEM_RNG",
    "BOTAN_HAS_X25519" }

\* #ifdef X / defined(X) under build profile B.
Has(B, flag) == flag \in B

\* The entries between #if cond and #endif: present only when cond holds.
IfDef(cond, entries) == IF cond THEN entries ELSE << >>

\* One plugin_feature_t initialiser.  line is the source line that declares
\* it (two initialisers on different lines are different array elements even
\* when they have the same arguments, as on lines 272 and 273).
PLUGIN_REGISTER(line, type, args) ==
  [kind |-> "REGISTER", type |-> type, arg |-> args, line |-> line]

PLUGIN_PROVIDE(line, type, args) ==
  [kind |-> "PROVIDE", type |-> type, arg |-> args, line |-> line]

\* A slot of f that was never written: static storage initialised with {}.
NoFeature == [kind |-> "NONE", type |-> "", arg |-> "", line |-> 0]

(***************************************************************************)
(* The twelve feature arrays, as functions of the build profile.           *)
(***************************************************************************)
\* f_dh: lines 73-90
f_dh(B) ==
  IfDef(Has(B, "BOTAN_HAS_DIFFIE_HELLMAN"),
    << PLUGIN_REGISTER(76, "DH", "botan_diffie_hellman_create"),
       PLUGIN_PROVIDE(77, "DH", "MODP_3072_BIT"),
       PLUGIN_PROVIDE(78, "DH", "MODP_4096_BIT"),
       PLUGIN_PROVIDE(79, "DH", "MODP_6144_BIT"),
       PLUGIN_PROVIDE(80, "DH", "MODP_8192_BIT"),
       PLUGIN_PROVIDE(81, "DH", "MODP_2048_BIT"),
       PLUGIN_PROVIDE(82, "DH", "MODP_2048_224"),
       PLUGIN_PROVIDE(83, "DH", "MODP_2048_256"),
       PLUGIN_PROVIDE(84, "DH", "MODP_1536_BIT"),
       PLUGIN_PROVIDE(85, "DH", "MODP_1024_BIT"),
       PLUGIN_PROVIDE(86, "DH", "MODP_1024_160"),
       PLUGIN_PROVIDE(87, "DH", "MODP_768_BIT"),
       PLUGIN_PROVIDE(88, "DH", "MODP_CUSTOM") >>)

\* f_ecdh: lines 92-107
f_ecdh(B) ==
  IfDef(Has(B, "BOTAN_HAS_ECDH"),
    << PLUGIN_REGISTER(95, "DH", "botan_ec_diffie_hellman_create"),
       PLUGIN_PROVIDE(96, "DH", "ECP_256_BIT"),
       PLUGIN_PROVIDE(97, "DH", "ECP_384_BIT"),
       PLUGIN_PROVIDE(98, "DH", "ECP_521_BIT"),
       PLUGIN_PROVIDE(99, "DH", "ECP_256_BP"),
       PLUGIN_PROVIDE(100, "DH", "ECP_384_BP"),
       PLUGIN_PROVIDE(101, "DH", "ECP_512_BP") >>)
  \o
  IfDef(Has(B, "BOTAN_HAS_X25519"),
    << PLUGIN_REGISTER(104, "DH", "botan_x25519_create"),
       PLUGIN_PROVIDE(105, "DH", "CURVE_25519") >>)

\* f_crypt: lines 109-155
f_crypt(B) ==
  IfDef(Has(B, "BOTAN_HAS_AES") /\ Has(B, "BOTAN_HAS_MODE_CBC"),
    << PLUGIN_REGISTER(112, "CRYPTER", "botan_crypter_create") >>
    \o
    IfDef(Has(B, "BOTAN_HAS_AES"),
      IfDef(Has(B, "BOTAN_HAS_MODE_CBC"),
        << PLUGIN_PROVIDE(115, "CRYPTER", "ENCR_AES_CBC, 16"),
           PLUGIN_PROVIDE(116, "CRYPTER", "ENCR_AES_CBC, 24"),
           PLUGIN_PROVIDE(117, "CRYPTER", "ENCR_AES_CBC, 32") >>)))
  \o
  IfDef((Has(B, "BOTAN_HAS_AES") /\ (Has(B, "BOTAN_HAS_AEAD_GCM") \/ Has(B, "BOTAN_HAS_AEAD_CCM"))) \/ Has(B, "BOTAN_HAS_AEAD_CHACHA20_POLY1305"),
    << PLUGIN_REGISTER(126, "AEAD", "botan_aead_create") >>
    \o
    IfDef(Has(B, "BOTAN_HAS_AES"),
      IfDef(Has(B, "BOTAN_HAS_AEAD_GCM"),
        << PLUGIN_PROVIDE(129, "AEAD", "ENCR_AES_GCM_ICV16, 16"),
           PLUGIN_PROVIDE(130, "AEAD", "ENCR_AES_GCM_ICV16, 24"),
           PLUGIN_PROVIDE(131, "AEAD", "ENCR_AES_GCM_ICV16, 32"),
           PLUGIN_PROVIDE(132, "AEAD", "ENCR_AES_GCM_ICV12, 16"),
           PLUGIN_PROVIDE(133, "AEAD", "ENCR_AES_GCM_ICV12, 24"),
           PLUGIN_PROVIDE(134, "AEAD", "ENCR_AES_GCM_ICV12, 32"),
           PLUGIN_PROVIDE(135, "AEAD", "ENCR_AES_GCM_ICV8, 16"),
           PLUGIN_PROVIDE(136, "AEAD", "ENCR_AES_GCM_ICV8, 24"),
           PLUGIN_PROVIDE(137, "AEAD", "ENCR_AES_GCM_ICV8, 32") >>)
      \o
      IfDef(Has(B, "BOTAN_HAS_AEAD_CCM"),
        << PLUGIN_PROVIDE(140, "AEAD", "ENCR_AES_CCM_ICV16, 16"),
           PLUGIN_PROVIDE(141, "AEAD", "ENCR_AES_CCM_ICV16, 24"),
           PLUGIN_PROVIDE(142, "AEAD", "ENCR_AES_CCM_ICV16, 32"),
           PLUGIN_PROVIDE(143, "AEAD", "ENCR_AES_CCM_ICV12, 16"),
           PLUGIN_PROVIDE(144, "AEAD", "ENCR_AES_CCM_ICV12, 24"),
           PLUGIN_PROVIDE(145, "AEAD", "ENCR_AES_CCM_ICV12, 32"),
           PLUGIN_PROVIDE(146, "AEAD", "ENCR_AES_CCM_ICV8, 16"),
           PLUGIN_PROVIDE(147, "AEAD", "ENCR_AES_CCM_ICV8, 24"),
           PLUGIN_PROVIDE(148, "AEAD", "ENCR_AES_CCM_ICV8, 32") >>))
    \o
    IfDef(Has(B, "BOTAN_HAS_AEAD_CHACHA20_POLY1305"),
      << PLUGIN_PROVIDE(152, "AEAD", "ENCR_CHACHA20_POLY1305, 32") >>))

\* f_hash with the registration under the conditions of its provisions.
f_hash_gated(B) ==
  IfDef(Has(B, "BOTAN_HAS_MD5") \/ Has(B, "BOTAN_HAS_SHA1")
          \/ Has(B, "BOTAN_HAS_SHA2_32") \/ Has(B, "BOTAN_HAS_SHA2_64")
          \/ Has(B, "BOTAN_HAS_SHA3"),
    << PLUGIN_REGISTER(159, "HASHER", "botan_hasher_create") >>)
  \o
  IfDef(Has(B, "BOTAN_HAS_MD5"),
    << PLUGIN_PROVIDE(161, "HASHER", "HASH_MD5") >>)
  \o
  IfDef(Has(B, "BOTAN_HAS_SHA1"),
    << PLUGIN_PROVIDE(164, "HASHER", "HASH_SHA1") >>)
  \o
  IfDef(Has(B, "BOTAN_HAS_SHA2_32"),
    << PLUGIN_PROVIDE(167, "HASHER", "HASH_SHA224"),
       PLUGIN_PROVIDE(168, "HASHER", "HASH_SHA256") >>)
  \o
  IfDef(Has(B, "BOTAN_HAS_SHA2_64"),
    << PLUGIN_PROVIDE(171, "HASHER", "HASH_SHA384"),
       PLUGIN_PROVIDE(172, "HASHER", "HASH_SHA512") >>)
  \o
  IfDef(Has(B, "BOTAN_HAS_SHA3"),
    << PLUGIN_PROVIDE(175, "HASHER", "HASH_SHA3_224"),
       PLUGIN_PROVIDE(176, "HASHER", "HASH_SHA3_256"),
       PLUGIN_PROVIDE(177, "HASHER", "HASH_SHA3_384"),
       PLUGIN_PROVIDE(178, "HASHER", "HASH_SHA3_512") >>)

\* f_hash: lines 157-180
f_hash(B) ==
  << PLUGIN_REGISTER(159, "HASHER", "botan_hasher_create") >>
  \o
  IfDef(Has(B, "BOTAN_HAS_MD5"),
    << PLUGIN_PROVIDE(161, "HASHER", "HASH_MD5") >>)
  \o
  IfDef(Has(B, "BOTAN_HAS_SHA1"),
    << PLUGIN_PROVIDE(164, "HASHER", "HASH_SHA1") >>)
  \o
  IfDef(Has(B, "BOTAN_HAS_SHA2_32"),
    << PLUGIN_PROVIDE(167, "HASHER", "HASH_SHA224"),
       PLUGIN_PROVIDE(168, "HASHER", "HASH_SHA256") >>)
  \o
  IfDef(Has(B, "BOTAN_HAS_SHA2_64"),
    << PLUGIN_PROVIDE(171, "HASHER", "HASH_SHA384"),
       PLUGIN_PROVIDE(172, "HASHER", "HASH_SHA512") >>)
  \o
  IfDef(Has(B, "BOTAN_HAS_SHA3"),
    << PLUGIN_PROVIDE(175, "HASHER", "HASH_SHA3_224"),
       PLUGIN_PROVIDE(176, "HASHER", "HASH_SHA3_256"),
       PLUGIN_PROVIDE(177, "HASHER", "HASH_SHA3_384"),
       PLUGIN_PROVIDE(178, "HASHER", "HASH_SHA3_512") >>)

\* f_prf with the #endif of BOTAN_HAS_HMAC right after the registration:
\* the provisions no longer depend on it.
f_prf_loose(B) ==
  IfDef(Has(B, "BOTAN_HAS_HMAC"),
    << PLUGIN_REGISTER(185, "PRF", "botan_hmac_prf_create") >>)
  \o
  IfDef(Has(B, "BOTAN_HAS_SHA1"),
    << PLUGIN_PROVIDE(187, "PRF", "PRF_HMAC_SHA1") >>)
  \o
  IfDef(Has(B, "BOTAN_HAS_SHA2_32"),
    << PLUGIN_PROVIDE(190, "PRF", "PRF_HMAC_SHA2_256") >>)
  \o
  IfDef(Has(B, "BOTAN_HAS_SHA2_64"),
    << PLUGIN_PROVIDE(193, "PRF", "PRF_HMAC_SHA2_384"),
       PLUGIN_PROVIDE(194, "PRF", "PRF_HMAC_SHA2_512") >>)

\* f_prf: lines 182-197
f_prf(B) ==
  IfDef(Has(B, "BOTAN_HAS_HMAC"),
    << PLUGIN_REGISTER(185, "PRF", "botan_hmac_prf_create") >>
    \o
    IfDef(Has(B, "BOTAN_HAS_SHA1"),
      << PLUGIN_PROVIDE(187, "PRF", "PRF_HMAC_SHA1") >>)
    \o
    IfDef(Has(B, "BOTAN_HAS_SHA2_32"),
      << PLUGIN_PROVIDE(190, "PRF", "PRF_HMAC_SHA2_256") >>)
    \o
    IfDef(Has(B, "BOTAN_HAS_SHA2_64"),
      << PLUGIN_PROVIDE(193, "PRF", "PRF_HMAC_SHA2_384"),
         PLUGIN_PROVIDE(194, "PRF", "PRF_HMAC_SHA2_512") >>))

\* f_hmac: lines 199-219
f_hmac(B) ==
  IfDef(Has(B, "BOTAN_HAS_HMAC"),
    << PLUGIN_REGISTER(202, "SIGNER", "botan_hmac_signer_create") >>
    \o
    IfDef(Has(B, "BOTAN_HAS_SHA1"),
      << PLUGIN_PROVIDE(204, "SIGNER", "AUTH_HMAC_SHA1_96"),
         PLUGIN_PROVIDE(205, "SIGNER", "AUTH_HMAC_SHA1_128"),
         PLUGIN_PROVIDE(206, "SIGNER", "AUTH_HMAC_SHA1_160") >>)
    \o
    IfDef(Has(B, "BOTAN_HAS_SHA2_32"),
      << PLUGIN_PROVIDE(209, "SIGNER", "AUTH_HMAC_SHA2_256_128"),
         PLUGIN_PROVIDE(210, "SIGNER", "AUTH_HMAC_SHA2_256_256") >>)
    \o
    IfDef(Has(B, "BOTAN_HAS_SHA2_64"),
      << PLUGIN_PROVIDE(213, "SIGNER", "AUTH_HMAC_SHA2_384_192"),
         PLUGIN_PROVIDE(214, "SIGNER", "AUTH_HMAC_SHA2_384_384"),
         PLUGIN_PROVIDE(215, "SIGNER", "AUTH_HMAC_SHA2_512_256"),
         PLUGIN_PROVIDE(216, "SIGNER", "AUTH_HMAC_SHA2_512_512") >>))

\* f_pubkey: lines 221-237
f_pubkey(B) ==
  IfDef(Has(B, "BOTAN_HAS_RSA") \/ Has(B, "BOTAN_HAS_ECDSA") \/ Has(B, "BOTAN_HAS_ED25519"),
    << PLUGIN_REGISTER(225, "PUBKEY", "botan_public_key_load, TRUE"),
       PLUGIN_PROVIDE(226, "PUBKEY", "KEY_ANY") >>
    \o
    IfDef(Has(B, "BOTAN_HAS_RSA"),
      << PLUGIN_PROVIDE(228, "PUBKEY", "KEY_RSA") >>)
    \o
    IfDef(Has(B, "BOTAN_HAS_ECDSA"),
      << PLUGIN_PROVIDE(231, "PUBKEY", "KEY_ECDSA") >>)
    \o
    IfDef(Has(B, "BOTAN_HAS_ED25519"),
      << PLUGIN_PROVIDE(234, "PUBKEY", "KEY_ED25519") >>))

\* f_privkey: lines 239-254
f_privkey(B) ==
  IfDef(Has(B, "BOTAN_HAS_RSA") \/ Has(B, "BOTAN_HAS_ECDSA") \/ Has(B, "BOTAN_HAS_ED25519"),
    << PLUGIN_REGISTER(242, "PRIVKEY", "botan_private_key_load, TRUE"),
       PLUGIN_PROVIDE(243, "PRIVKEY", "KEY_ANY") >>
    \o
    IfDef(Has(B, "BOTAN_HAS_RSA"),
      << PLUGIN_PROVIDE(245, "PRIVKEY", "KEY_RSA") >>)
    \o
    IfDef(Has(B, "BOTAN_HAS_ECDSA"),
      << PLUGIN_PROVIDE(248, "PRIVKEY", "KEY_ECDSA") >>)
    \o
    IfDef(Has(B, "BOTAN_HAS_ED25519"),
      << PLUGIN_PROVIDE(251, "PRIVKEY", "KEY_ED25519") >>))

\* f_rsa: lines 256-317
f_rsa(B) ==
  IfDef(Has(B, "BOTAN_HAS_RSA"),
    << PLUGIN_REGISTER(260, "PUBKEY", "botan_rsa_public_key_load, TRUE"),
       PLUGIN_PROVIDE(261, "PUBKEY", "KEY_RSA"),
       PLUGIN_REGISTER(262, "PRIVKEY", "botan_rsa_private_key_load, TRUE"),
       PLUGIN_PROVIDE(263, "PRIVKEY", "KEY_RSA"),
       PLUGIN_PROVIDE(264, "PRIVKEY", "KEY_ANY"),
       PLUGIN_REGISTER(265, "PRIVKEY_GEN", "botan_rsa_private_key_gen, FALSE"),
       PLUGIN_PROVIDE(266, "PRIVKEY_GEN", "KEY_RSA") >>
    \o
    IfDef(Has(B, "BOTAN_HAS_EMSA_PKCS1"),
      << PLUGIN_PROVIDE(269, "PRIVKEY_SIGN", "SIGN_RSA_EMSA_PKCS1_NULL"),
         PLUGIN_PROVIDE(270, "PUBKEY_VERIFY", "SIGN_RSA_EMSA_PKCS1_NULL") >>
      \o
      IfDef(Has(B, "BOTAN_HAS_SHA1"),
        << PLUGIN_PROVIDE(272, "PRIVKEY_SIGN", "SIGN_RSA_EMSA_PKCS1_SHA1"),
           PLUGIN_PROVIDE(273, "PRIVKEY_SIGN", "SIGN_RSA_EMSA_PKCS1_SHA1"),
           PLUGIN_PROVIDE(274, "PUBKEY_VERIFY", "SIGN_RSA_EMSA_PKCS1_SHA1"),
           PLUGIN_PROVIDE(275, "PUBKEY_VERIFY", "SIGN_RSA_EMSA_PKCS1_SHA1") >>)
      \o
      IfDef(Has(B, "BOTAN_HAS_SHA2_32"),
        << PLUGIN_PROVIDE(278, "PRIVKEY_SIGN", "SIGN_RSA_EMSA_PKCS1_SHA2_224"),
           PLUGIN_PROVIDE(279, "PRIVKEY_SIGN", "SIGN_RSA_EMSA_PKCS1_SHA2_256"),
           PLUGIN_PROVIDE(280, "PUBKEY_VERIFY", "SIGN_RSA_EMSA_PKCS1_SHA2_224"),
           PLUGIN_PROVIDE(281, "PUBKEY_VERIFY", "SIGN_RSA_EMSA_PKCS1_SHA2_256") >>)
      \o
      IfDef(Has(B, "BOTAN_HAS_SHA2_64"),
        << PLUGIN_PROVIDE(284, "PRIVKEY_SIGN", "SIGN_RSA_EMSA_PKCS1_SHA2_384"),
           PLUGIN_PROVIDE(285, "PRIVKEY_SIGN", "SIGN_RSA_EMSA_PKCS1_SHA2_512"),
           PLUGIN_PROVIDE(286, "PUBKEY_VERIFY", "SIGN_RSA_EMSA_PKCS1_SHA2_384"),
           PLUGIN_PROVIDE(287, "PUBKEY_VERIFY", "SIGN_RSA_EMSA_PKCS1_SHA2_512") >>)
      \o
      IfDef(Has(B, "BOTAN_HAS_SHA3"),
        << PLUGIN_PROVIDE(290, "PRIVKEY_SIGN", "SIGN_RSA_EMSA_PKCS1_SHA3_224"),
           PLUGIN_PROVIDE(291, "PRIVKEY_SIGN", "SIGN_RSA_EMSA_PKCS1_SHA3_256"),
           PLUGIN_PROVIDE(292, "PRIVKEY_SIGN", "SIGN_RSA_EMSA_PKCS1_SHA3_384"),
           PLUGIN_PROVIDE(293, "PRIVKEY_SIGN", "SIGN_RSA_EMSA_PKCS1_SHA3_512"),
           PLUGIN_PROVIDE(294, "PUBKEY_VERIFY", "SIGN_RSA_EMSA_PKCS1_SHA3_224"),
           PLUGIN_PROVIDE(295, "PUBKEY_VERIFY", "SIGN_RSA_EMSA_PKCS1_SHA3_256"),
           PLUGIN_PROVIDE(296, "PUBKEY_VERIFY", "SIGN_RSA_EMSA_PKCS1_SHA3_384"),
           PLUGIN_PROVIDE(297, "PUBKEY_VERIFY", "SIGN_RSA_EMSA_PKCS1_SHA3_512") >>))
    \o
    IfDef(Has(B, "BOTAN_HAS_EMSA_PSSR"),
      << PLUGIN_PROVIDE(301, "PRIVKEY_SIGN", "SIGN_RSA_EMSA_PSS"),
         PLUGIN_PROVIDE(302, "PUBKEY_VERIFY", "SIGN_RSA_EMSA_PSS") >>)
    \o
    << PLUGIN_PROVIDE(304, "PRIVKEY_DECRYPT", "ENCRYPT_RSA_PKCS1"),
       PLUGIN_PROVIDE(305, "PUBKEY_ENCRYPT", "ENCRYPT_RSA_PKCS1") >>
    \o
    IfDef(Has(B, "BOTAN_HAS_EME_OAEP"),
      IfDef(Has(B, "BOTAN_HAS_SHA2_32"),
        << PLUGIN_PROVIDE(308, "PUBKEY_ENCRYPT", "ENCRYPT_RSA_OAEP_SHA224"),
           PLUGIN_PROVIDE(309, "PUBKEY_ENCRYPT", "ENCRYPT_RSA_OAEP_SHA256") >>)
      \o
      IfDef(Has(B, "BOTAN_HAS_SHA2_64"),
        << PLUGIN_PROVIDE(312, "PUBKEY_ENCRYPT", "ENCRYPT_RSA_OAEP_SHA384"),
           PLUGIN_PROVIDE(313, "PUBKEY_ENCRYPT", "ENCRYPT_RSA_OAEP_SHA512") >>)))

\* f_ecdsa: lines 319-354
f_ecdsa(B) ==
  IfDef(Has(B, "BOTAN_HAS_ECDSA"),
    << PLUGIN_REGISTER(322, "PRIVKEY", "botan_ec_private_key_load, TRUE"),
       PLUGIN_PROVIDE(323, "PRIVKEY", "KEY_ECDSA"),
       PLUGIN_PROVIDE(324, "PRIVKEY", "KEY_ANY"),
       PLUGIN_REGISTER(325, "PRIVKEY_GEN", "botan_ec_private_key_gen, FALSE"),
       PLUGIN_PROVIDE(326, "PRIVKEY_GEN", "KEY_ECDSA") >>
    \o
    IfDef(Has(B, "BOTAN_HAS_EMSA_RAW"),
      << PLUGIN_PROVIDE(328, "PRIVKEY_SIGN", "SIGN_ECDSA_WITH_NULL"),
         PLUGIN_PROVIDE(329, "PUBKEY_VERIFY", "SIGN_ECDSA_WITH_NULL") >>)
    \o
    IfDef(Has(B, "BOTAN_HAS_EMSA1"),
      IfDef(Has(B, "BOTAN_HAS_SHA1"),
        << PLUGIN_PROVIDE(333, "PRIVKEY_SIGN", "SIGN_ECDSA_WITH_SHA1_DER"),
           PLUGIN_PROVIDE(334, "PUBKEY_VERIFY", "SIGN_ECDSA_WITH_SHA1_DER") >>)
      \o
      IfDef(Has(B, "BOTAN_HAS_SHA2_32"),
        << PLUGIN_PROVIDE(337, "PRIVKEY_SIGN", "SIGN_ECDSA_WITH_SHA256_DER"),
           PLUGIN_PROVIDE(338, "PUBKEY_VERIFY", "SIGN_ECDSA_WITH_SHA256_DER"),
           PLUGIN_PROVIDE(339, "PRIVKEY_SIGN", "SIGN_ECDSA_256"),
           PLUGIN_PROVIDE(340, "PUBKEY_VERIFY", "SIGN_ECDSA_256") >>)
      \o
      IfDef(~Has(B, "BOTAN_HAS_SHA2_64"),
        << PLUGIN_PROVIDE(343, "PRIVKEY_SIGN", "SIGN_ECDSA_WITH_SHA384_DER"),
           PLUGIN_PROVIDE(344, "PRIVKEY_SIGN", "SIGN_ECDSA_WITH_SHA512_DER"),
           PLUGIN_PROVIDE(345, "PUBKEY_VERIFY", "SIGN_ECDSA_WITH_SHA384_DER"),
           PLUGIN_PROVIDE(346, "PUBKEY_VERIFY", "SIGN_ECDSA_WITH_SHA512_DER"),
           PLUGIN_PROVIDE(347, "PRIVKEY_SIGN", "SIGN_ECDSA_384"),
           PLUGIN_PROVIDE(348, "PRIVKEY_SIGN", "SIGN_ECDSA_521"),
           PLUGIN_PROVIDE(349, "PUBKEY_VERIFY", "SIGN_ECDSA_384"),
           PLUGIN_PROVIDE(350, "PUBKEY_VERIFY", "SIGN_ECDSA_521") >>)))

\* f_ed25519: lines 356-371
f_ed25519(B) ==
  IfDef(Has(B, "BOTAN_HAS_ED25519"),
    << PLUGIN_REGISTER(359, "PUBKEY", "botan_ed_public_key_load, TRUE"),
       PLUGIN_PROVIDE(360, "PUBKEY", "KEY_ED25519"),
       PLUGIN_REGISTER(361, "PRIVKEY", "botan_ed_private_key_load, TRUE"),
       PLUGIN_PROVIDE(362, "PRIVKEY", "KEY_ED25519"),
       PLUGIN_REGISTER(363, "PRIVKEY_GEN", "botan_ed_private_key_gen, FALSE"),
       PLUGIN_PROVIDE(364, "PRIVKEY_GEN", "KEY_ED25519"),
       PLUGIN_PROVIDE(365, "PRIVKEY_SIGN", "SIGN_ED25519"),
       PLUGIN_PROVIDE(366, "PUBKEY_VERIFY", "SIGN_ED25519"),
       PLUGIN_REGISTER(368, "HASHER", "return_null"),
       PLUGIN_PROVIDE(369, "HASHER", "HASH_IDENTITY") >>)

\* f_rng: lines 373-383
f_rng(B) ==
  IfDef(Has(B, "BOTAN_HAS_SYSTEM_RNG"),
    IfDef(Has(B, "BOTAN_HAS_HMAC_DRBG"),
      << PLUGIN_REGISTER(377, "RNG", "botan_rng_create"),
         PLUGIN_PROVIDE(378, "RNG", "RNG_WEAK"),
         PLUGIN_PROVIDE(379, "RNG", "RNG_STRONG"),
         PLUGIN_PROVIDE(380, "RNG", "RNG_TRUE") >>))

(***************************************************************************)
(* The merge: lines 384-412.                                               *)
(***************************************************************************)

\* The operands of countof() in the declaration of f, in declaration order.
Declared(B) ==
  << f_dh(B), f_ecdh(B), f_crypt(B), f_hash(B), f_prf(B), f_hmac(B),
     f_pubkey(B), f_privkey(B), f_rsa(B), f_ecdsa(B), f_ed25519(B), f_rng(B) >>

RECURSIVE SumLen(_, _)
SumLen(gs, n) == IF n = 0 THEN 0 ELSE Len(gs[n]) + SumLen(gs, n - 1)

\* countof(f): the number of slots of the backing storage.
countof_f(B) == SumLen(Declared(B), Len(Declared(B)))

\* AddList with the call for f_hash left out.
AddList_nohash(B) ==
  << f_dh(B), f_ecdh(B), f_crypt(B), f_prf(B), f_hmac(B),
     f_privkey(B), f_rsa(B), f_ecdsa(B), f_ed25519(B) >>

\* The arrays passed to plugin_features_add() ahead of the settings lookup,
\* in call order.
AddList(B) ==
  << f_dh(B), f_ecdh(B), f_crypt(B), f_hash(B), f_prf(B), f_hmac(B),
     f_privkey(B), f_rsa(B), f_ecdsa(B), f_ed25519(B) >>

\* NeedsBuild with the test of count lost: every call appends again.
NeedsBuild_always(c) == TRUE

\* if (!count)
NeedsBuild(c) == c = 0

\* RngIncluded with the setting ignored: f_rng is appended regardless.
RngIncluded_always(setting) == TRUE

\* if (lib->settings->get_bool(..., "%s.plugins.botan.use_rng", TRUE, ...))
RngIncluded(setting) == setting

\* plugin_features_add(f, to_add, countof(to_add), &count) on the memory
\* st = [f, count, oob]: the loop
\*   for (i = 0; i < count; i++) features[(*pos)++] = to_add[i];
\* as one assignment.  Slot index count of the C array is f[count + 1] here.
\* A store at an index >= countof(f) is outside the array: it is recorded
\* in oob and leaves f alone.
plugin_features_add(st, to_add) ==
  [f |-> [k \in DOMAIN st.f |->
            IF k > st.count /\ k <= st.count + Len(to_add)
            THEN to_add[k - st.count] ELSE st.f[k]],
   count |-> st.count + Len(to_add),
   oob |-> st.oob \/ (Len(to_add) > 0 /\ st.count + Len(to_add) > Len(st.f))]

\* One round of that loop: features[(*pos)++] = to_add[i].
StoreFeature(st, e) == plugin_features_add(st, << e >>)

RECURSIVE AddGroups(_, _, _)
AddGroups(st, gs, g) ==
  IF g > Len(gs) THEN st
  ELSE AddGroups(plugin_features_add(st, gs[g]), gs, g + 1)

\* static plugin_feature_t f[...] = {}; static int count = 0;
Zeroed(B) ==
  [f |-> [k \in 1 .. countof_f(B) |-> NoFeature], count |-> 0, oob |-> FALSE]

\* The body of get_features() run from entry to return on memory st, with
\* the use_rng setting as it is when the lookup runs.
get_features(st, B, setting) ==
  IF NeedsBuild(st.count)
  THEN LET a == AddGroups(st, AddList(B), 1)
       IN  IF RngIncluded(setting) THEN plugin_features_add(a, f_rng(B)) ELSE a
  ELSE st

\* The first array element at or after to_add[i] of AddList(B)[g] that
\* exists: the next store of the append sequence ahead of the lookup.
RECURSIVE NextPos(_, _, _)
NextPos(B, g, i) ==
  IF g > Len(AddList(B)) THEN [g |-> g, i |-> 1]
  ELSE IF i <= Len(AddList(B)[g]) THEN [g |-> g, i |-> i]
  ELSE NextPos(B, g + 1, 1)

(***************************************************************************)
(* Build profiles explored.                                                *)
(***************************************************************************)
RECURSIVE UpTo(_)
UpTo(k) ==
  IF k = 0 THEN { {} }
  ELSE LET prev == UpTo(k - 1)
       IN  prev \cup { s \cup {x} : s \in prev, x \in Flags }

RngProfile == { "BOTAN_HAS_SYSTEM_RNG", "BOTAN_HAS_HMAC_DRBG" }

\* Nearly empty and nearly full builds.
Profiles == UpTo(MaxOn) \cup { Flags \ s : s \in UpTo(MaxOff) }

\* Builds for the threaded model: those of the nearly empty builds, and the
\* smallest build with an RNG, whose f has at most MaxSlots slots.
SmallProfiles ==
  { B \in UpTo(MaxOn) \cup { RngProfile } : countof_f(B) <= MaxSlots }

(***************************************************************************)
(* State.                                                                  *)
(***************************************************************************)
VARIABLES
  build,      \* the macros defined when the file was compiled
  use_rng,    \* the value of <ns>.plugins.botan.use_rng in lib->settings
  f,          \* static plugin_feature_t f[...]
  count,      \* static int count
  oob,        \* a store outside f has happened
  fault,      \* the process has died of a store outside f
  facades,    \* the private_botan_plugin_t objects alive
  builds,     \* how often the branch of if (!count) was entered
  lookups,    \* the values the lookups of the use_rng setting returned
  cached,     \* some get_features() call found the catalog built already
  first_ret,  \* what the first get_features() to return returned
  last_ret,   \* what the latest get_features() to return returned
  pc,         \* threaded model: where each thread is in get_features()
  pos,        \* threaded model: each thread's array and index i
  calls,      \* threaded model: calls each thread has made
  result      \* threaded model: what each thread's call returned

vars == << build, use_rng, f, count, oob, fault, facades, builds, lookups,
           cached, first_ret, last_ret, pc, pos, calls, result >>

statics == << f, count, oob, fault, builds, lookups >>
threads == << pc, pos, calls, result >>
returns == << first_ret, last_ret >>

Threads == 1 .. NumThreads

NoRet == [features |-> "NULL", count |-> 0, contents |-> << >>]

\* *features = f; return count;  seen by the caller as the array reference,
\* the count and the count leading slots.
Returned(fv, c) ==
  [features |-> "f", count |-> c,
   contents |-> SubSeq(fv, 1, IF c < Len(fv) THEN c ELSE Len(fv))]

InitStatics(B) ==
  /\ f = Zeroed(B).f
  /\ count = Zeroed(B).count
  /\ oob = Zeroed(B).oob
  /\ fault = FALSE
  /\ builds = 0
  /\ lookups = << >>
  /\ cached = FALSE
  /\ first_ret = NoRet
  /\ last_ret = NoRet
  /\ pc = [t \in Threads |-> "idle"]
  /\ pos = [t \in Threads |-> [g |-> 1, i |-> 1]]
  /\ calls = [t \in Threads |-> 0]
  /\ result = [t \in Threads |-> NoRet]

Init ==
  /\ build \in Profiles
  /\ use_rng \in BOOLEAN
  /\ facades = {}
  /\ InitStatics(build)

InitThreaded ==
  /\ build \in SmallProfiles
  /\ use_rng \in BOOLEAN
  /\ facades = {1}
  /\ InitStatics(build)

(***************************************************************************)
(* Operations of the host, each run from entry to return.                  *)
(***************************************************************************)

\* botan_plugin_create(): a new facade; the statics are not touched.
botan_plugin_create ==
  /\ ~fault
  /\ \E p \in (1 .. MaxFacades) \ facades : facades' = facades \cup {p}
  /\ UNCHANGED << build, use_rng, statics, cached, returns, threads >>

\* destroy(): free(this).
destroy(p) ==
  /\ ~fault
  /\ p \in facades
  /\ facades' = facades \ {p}
  /\ UNCHANGED << build, use_rng, statics, cached, returns, threads >>

\* The settings value changes (reload of the configuration).
SetUseRng(b) ==
  /\ ~fault
  /\ b # use_rng
  /\ use_rng' = b
  /\ UNCHANGED << build, facades, statics, cached, returns, threads >>

\* get_features() on facade p, not overlapping any other call.  The model
\* follows a run no further than its first store outside f.
GetFeatures(p) ==
  /\ ~fault /\ ~oob
  /\ p \in facades
  /\ cached' = (cached \/ ~NeedsBuild(count))
  /\ LET st == get_features([f |-> f, count |-> count, oob |-> oob],
                            build, use_rng)
         ret == Returned(st.f, st.count)
     IN  /\ f' = st.f
         /\ count' = st.count
         /\ oob' = st.oob
         /\ fault' \in (IF st.oob THEN BOOLEAN ELSE {FALSE})
         /\ builds' = IF NeedsBuild(count) THEN builds + 1 ELSE builds
         /\ lookups' = IF NeedsBuild(count) THEN Append(lookups, use_rng)
                        ELSE lookups
         /\ last_ret' = ret
         /\ first_ret' = IF first_ret = NoRet THEN ret ELSE first_ret
  /\ UNCHANGED << build, use_rng, facades, threads >>

Next ==
  \/ botan_plugin_create
  \/ \E p \in 1 .. MaxFacades : destroy(p)
  \/ \E b \in BOOLEAN : SetUseRng(b)
  \/ \E p \in 1 .. MaxFacades : GetFeatures(p)

Spec == Init /\ [][Next]_vars

(***************************************************************************)
(* The same function entered by several threads.  The code takes no lock:  *)
(* each thread's steps are the test of count, every single store of the    *)
(* append loops, the settings lookup and the final read of count.          *)
(***************************************************************************)

\* The effect of one store by thread t on the statics.  After the first
\* store outside f the process either dies or runs on.
Store(e) ==
  LET st == StoreFeature([f |-> f, count |-> count, oob |-> oob], e)
  IN  /\ f' = st.f
      /\ count' = st.count
      /\ oob' = st.oob
      /\ fault' \in (IF st.oob THEN BOOLEAN ELSE {FALSE})

\* A thread enters get_features() of a live facade.
Call(t) ==
  /\ ~fault
  /\ facades # {}
  /\ pc[t] = "idle"
  /\ calls[t] < MaxCalls
  /\ pc' = [pc EXCEPT ![t] = "test"]
  /\ calls' = [calls EXCEPT ![t] = @ + 1]
  /\ UNCHANGED << build, use_rng, facades, statics, cached, returns, pos, result >>

\* if (!count)
Test(t) ==
  /\ ~fault
  /\ pc[t] = "test"
  /\ IF NeedsBuild(count)
     THEN LET np == NextPos(build, 1, 1)
          IN  /\ builds' = builds + 1
              /\ pos' = [pos EXCEPT ![t] = np]
              /\ pc' = [pc EXCEPT ![t] =
                          IF np.g > Len(AddList(build)) THEN "cfg" ELSE "add"]
     ELSE /\ pc' = [pc EXCEPT ![t] = "ret"]
          /\ UNCHANGED << builds, pos >>
  /\ cached' = (cached \/ ~NeedsBuild(count))
  /\ UNCHANGED << build, use_rng, facades, f, count, oob, fault, lookups,
                  returns, calls, result >>

\* One store of the plugin_features_add() calls ahead of the lookup.
Add(t) ==
  /\ ~fault
  /\ pc[t] = "add"
  /\ LET np == NextPos(build, pos[t].g, pos[t].i + 1)
     IN  /\ Store(AddList(build)[pos[t].g][pos[t].i])
         /\ pos' = [pos EXCEPT ![t] = np]
         /\ pc' = [pc EXCEPT ![t] =
                     IF np.g > Len(AddList(build)) THEN "cfg" ELSE "add"]
  /\ UNCHANGED << build, use_rng, facades, builds, lookups, cached, returns,
                  calls, result >>

\* The lookup of the use_rng setting.
Lookup(t) ==
  /\ ~fault
  /\ pc[t] = "cfg"
  /\ lookups' = Append(lookups, use_rng)
  /\ pos' = [pos EXCEPT ![t].i = 1]
  /\ pc' = [pc EXCEPT ![t] =
              IF RngIncluded(use_rng) /\ Len(f_rng(build)) > 0
              THEN "rng" ELSE "ret"]
  /\ UNCHANGED << build, use_rng, facades, f, count, oob, fault, builds,
                  cached, returns, calls, result >>

\* One store of plugin_features_add(f, f_rng, ...).
AddRng(t) ==
  /\ ~fault
  /\ pc[t] = "rng"
  /\ Store(f_rng(build)[pos[t].i])
  /\ pos' = [pos EXCEPT ![t].i = @ + 1]
  /\ pc' = [pc EXCEPT ![t] =
              IF pos[t].i + 1 > Len(f_rng(build)) THEN "ret" ELSE "rng"]
  /\ UNCHANGED << build, use_rng, facades, builds, lookups, cached, returns,
                  calls, result >>

\* *features = f; return count;
Return(t) ==
  /\ ~fault
  /\ pc[t] = "ret"
  /\ LET ret == Returned(f, count)
     IN  /\ result' = [result EXCEPT ![t] = ret]
         /\ last_ret' = ret
         /\ first_ret' = IF first_ret = NoRet THEN ret ELSE first_ret
  /\ pc' = [pc EXCEPT ![t] = "idle"]
  /\ UNCHANGED << build, use_rng, facades, statics, cached, pos, calls >>

NextThreaded ==
  \/ \E t \in Threads : Call(t)
  \/ \E t \in Threads : Test(t)
  \/ \E t \in Threads : Add(t)
  \/ \E t \in Threads : Lookup(t)
  \/ \E t \in Threads : AddRng(t)
  \/ \E t \in Threads : Return(t)
  \/ \E b \in BOOLEAN : SetUseRng(b)

SpecThreaded == InitThreaded /\ [][NextThreaded]_vars

(***************************************************************************)
(* Properties.                                                             *)
(***************************************************************************)

\* Some get_features() call has returned.
Built == first_ret # NoRet

\* The source lines of the declarations of the twelve arrays.
Arrays ==
  << [name |-> "f_dh", first |-> 73, last |-> 90],
     [name |-> "f_ecdh", first |-> 92, last |-> 107],
     [name |-> "f_crypt", first |-> 109, last |-> 155],
     [name |-> "f_hash", first |-> 157, last |-> 180],
     [name |-> "f_prf", first |-> 182, last |-> 197],
     [name |-> "f_hmac", first |-> 199, last |-> 219],
     [name |-> "f_pubkey", first |-> 221, last |-> 237],
     [name |-> "f_privkey", first |-> 239, last |-> 254],
     [name |-> "f_rsa", first |-> 256, last |-> 317],
     [name |-> "f_ecdsa", first |-> 319, last |-> 354],
     [name |-> "f_ed25519", first |-> 356, last |-> 371],
     [name |-> "f_rng", first |-> 373, last |-> 383] >>

\* The array an entry was declared in.
ArrayOf(e) ==
  CHOOSE a \in DOMAIN Arrays : Arrays[a].first <= e.line /\ e.line <= Arrays[a].last

\* The catalog a single get_features() call builds for build B when the
\* lookup of use_rng returns setting.
BuiltAlone(B, setting) ==
  LET st == get_features(Zeroed(B), B, setting)
  IN  SubSeq(st.f, 1, st.count)

\* C1: the catalog the first get_features() call returns is the
\* concatenation, in declaration order, of all of f_dh, f_ecdh, f_crypt,
\* f_hash, f_prf, f_hmac, f_pubkey, f_privkey, f_rsa, f_ecdsa, f_ed25519 and,
\* when the lookup of use_rng returned true, f_rng; the returned count is its
\* length.
C1_CatalogHoldsEveryGroup ==
  Built =>
    LET all == f_dh(build) \o f_ecdh(build) \o f_crypt(build) \o f_hash(build)
                 \o f_prf(build) \o f_hmac(build) \o f_pubkey(build)
                 \o f_privkey(build) \o f_rsa(build) \o f_ecdsa(build)
                 \o f_ed25519(build)
                 \o (IF lookups[1] THEN f_rng(build) ELSE << >>)
    IN  /\ first_ret.contents = all
        /\ first_ret.count = Len(all)

\* C2: once a get_features() call has returned, every later call returns the
\* same reference, count and contents, and what a call would return stays
\* the same, whatever calls, creations, destructions and changes of the
\* use_rng setting come in between.
C2_ReturnIsStable ==
  Built =>
    /\ last_ret = first_ret
    /\ Returned(f, count) = first_ret
    /\ first_ret.features = "f"

\* C2 witness: a later call has returned, the facades are all destroyed and
\* the setting differs from the one the build read.
C2_Witness ==
  /\ Built
  /\ cached
  /\ facades = {}
  /\ use_rng # lookups[1]
  /\ last_ret = first_ret
  /\ first_ret.count > 1

\* C3: with several threads inside get_features() before the cache is
\* built, every call that returns returns the array f, the same count as
\* every other call, and that count is the length of the completely built
\* catalog (no call returns a partly built one).
C3_ThreadsAgree ==
  \A t \in Threads :
    result[t] # NoRet =>
      /\ result[t].features = "f"
      /\ \A u \in Threads : result[u] # NoRet => result[u].count = result[t].count
      /\ lookups # << >>
      /\ result[t].contents = BuiltAlone(build, lookups[1])
      /\ result[t].count = Len(BuiltAlone(build, lookups[1]))

\* C4: over the life of the process the append sequence runs at most once
\* and the use_rng setting is looked up at most once, and exactly once when
\* a call has returned.
C4_BuildsOnce ==
  /\ builds <= 1
  /\ Len(lookups) <= 1
  /\ (Built => builds = 1 /\ Len(lookups) = 1)

\* C5: if the lookup of use_rng at build time returned false the catalog
\* has no entry of type RNG; if it returned true the RNG entries of the
\* catalog are the four of lines 377-380 when BOTAN_HAS_SYSTEM_RNG and
\* BOTAN_HAS_HMAC_DRBG are both set, and none otherwise, and they are the
\* last entries of the catalog, in the order declared.
C5_RngGroup ==
  Built =>
    LET cat == first_ret.contents
        n == Len(cat)
        rng == { k \in 1 .. n : cat[k].type = "RNG" }
        want == IF lookups[1] /\ RngProfile \subseteq build THEN 4 ELSE 0
    IN  /\ Cardinality(rng) = want
        /\ rng = (n - want + 1) .. n
        /\ \A k \in rng :
             /\ cat[k].line = 377 + (k - (n - want + 1))
             /\ cat[k].kind = IF k = n - want + 1 THEN "REGISTER" ELSE "PROVIDE"

\* C5 witness: a catalog built with the setting true in a build with both
\* RNG macros, holding other groups ahead of the RNG entries.
C5_Witness ==
  /\ Built
  /\ lookups[1]
  /\ RngProfile \subseteq build
  /\ first_ret.count > 4
  /\ first_ret.contents[first_ret.count].arg = "RNG_TRUE"

\* C6: for every macro F of the build, the catalog built without F (same
\* setting) is the catalog built with F with some entries deleted: nothing
\* new appears and the order of what remains is unchanged.  (Entries are
\* distinct, so the entries of the larger catalog that occur in the smaller
\* one, in their order, must be the smaller one.)
C6_DisablingOnlyDeletes ==
  Built =>
    \A F \in build :
      LET less == BuiltAlone(build \ {F}, lookups[1])
          kept == { less[i] : i \in 1 .. Len(less) }
      IN  SelectSeq(first_ret.contents, LAMBDA e : e \in kept) = less

\* The position of the registration governing the provision at k: the
\* nearest registration ahead of it that comes from the same array, or 0.
Governing(cat, k) ==
  LET js == { j \in 1 .. (k - 1) :
                cat[j].kind = "REGISTER" /\ ArrayOf(cat[j]) = ArrayOf(cat[k]) }
  IN  IF js = {} THEN 0 ELSE CHOOSE j \in js : \A i \in js : i <= j

\* The provision types for which this file declares no registration of the
\* same type.
SchemeTypes ==
  { "PRIVKEY_SIGN", "PUBKEY_VERIFY", "PRIVKEY_DECRYPT", "PUBKEY_ENCRYPT" }

\* C7 as claimed: every provision of the catalog has a governing
\* registration in its own array, and that registration has the provision's
\* type.
C7_ProvisionMatchesRegistration ==
  Built =>
    LET cat == first_ret.contents
    IN  \A k \in 1 .. Len(cat) :
          cat[k].kind = "PROVIDE" =>
            /\ Governing(cat, k) # 0
            /\ cat[Governing(cat, k)].type = cat[k].type

\* C7 as amended: every provision of the catalog has a governing
\* registration in its own array; that registration has the provision's
\* type, except for the PRIVKEY_SIGN, PUBKEY_VERIFY, PRIVKEY_DECRYPT and
\* PUBKEY_ENCRYPT provisions, which occur only in f_rsa, f_ecdsa and
\* f_ed25519 and are governed by the PRIVKEY_GEN registration of their array.
C7_ProvisionHasRegistration ==
  Built =>
    LET cat == first_ret.contents
    IN  \A k \in 1 .. Len(cat) :
          cat[k].kind = "PROVIDE" =>
            LET g == Governing(cat, k)
            IN  /\ g # 0
                /\ IF cat[k].type \in SchemeTypes
                   THEN /\ cat[g].type = "PRIVKEY_GEN"
                        /\ Arrays[ArrayOf(cat[k])].name
                             \in { "f_rsa", "f_ecdsa", "f_ed25519" }
                   ELSE cat[g].type = cat[k].type

\* C7 witness: a catalog holding signature provisions of f_rsa and of
\* f_ed25519.
C7_Witness ==
  /\ Built
  /\ \E k \in 1 .. first_ret.count :
       /\ first_ret.contents[k].type = "PRIVKEY_SIGN"
       /\ first_ret.contents[k].arg = "SIGN_ED25519"
  /\ \E k \in 1 .. first_ret.count :
       first_ret.contents[k].arg = "ENCRYPT_RSA_PKCS1"

\* C8 as claimed: with no BOTAN_HAS_* macro set, get_features() returns f
\* and count 0, an empty catalog.
C8_EmptyBuildReturnsZero ==
  (Built /\ build = {}) =>
    /\ first_ret.features = "f"
    /\ first_ret.count = 0
    /\ first_ret.contents = << >>

\* C8 as amended: with no BOTAN_HAS_* macro set, get_features() returns f
\* and count 1; the catalog is the hasher registration of line 159 alone,
\* and it holds no provision.
C8_EmptyBuildReturnsHasher ==
  (Built /\ build = {}) =>
    /\ ~oob /\ ~fault
    /\ first_ret.features = "f"
    /\ first_ret.count = 1
    /\ first_ret.contents =
         << PLUGIN_REGISTER(159, "HASHER", "botan_hasher_create") >>
    /\ \A k \in 1 .. Len(first_ret.contents) :
         first_ret.contents[k].kind # "PROVIDE"

\* C8 witness: a call has returned in the build with no macro set, for
\* the setting true.
C8_Witness ==
  /\ Built
  /\ build = {}
  /\ lookups = << TRUE >>

\* C9: count never exceeds countof(f) and no store lands outside f.
C9_WithinStorage ==
  /\ ~oob
  /\ count <= Len(f)
  /\ Len(f) = countof_f(build)

\* C10: after the first get_features() call has returned, count is at
\* least 1, so the test !count fails on every later call and the append
\* sequence is not entered again.
C10_CountIsBuiltFlag ==
  Built =>
    /\ count >= 1
    /\ ~NeedsBuild(count)
    /\ builds = 1
    /\ Len(lookups) = 1

\* C10 witness: in the build with no macro set and the setting false, where
\* the catalog is smallest, a second call has returned and the append
\* sequence ran once.
C10_Witness ==
  /\ build = {}
  /\ lookups = << FALSE >>
  /\ cached
  /\ builds = 1
  /\ count = 1
=============================================================================
